---------------------------- MODULE Spec2Model ----------------------------
(***************************************************************************)
(* Model of notebooks/irreps.ipynb: form_matrix_irrep_so3 and its helpers  *)
(* initialize_generators, initialize_eigenstates, reassemble_mat_from_sols.*)
(*                                                                         *)
(* Numbers.  The notebook computes with numpy complex doubles and sympy    *)
(* expressions.  Every value it can produce for the inputs considered is   *)
(* a finite sum  SUM_n (re_n + i*im_n) * sqrt(n)  with rational re_n, im_n *)
(* and squarefree n; a number is modelled as that value plus a flag fl     *)
(* telling whether the program holds it as a float (numpy scalar / sympy   *)
(* Float) or as an exact sympy number.  A float is modelled by the real    *)
(* number it approximates: rounding error is not modelled.                 *)
(*                                                                         *)
(* Symbols.  A sympy Symbol is modelled by its name, a sequence of         *)
(* character codes ("x10" is <<120, 49, 48>>).                             *)
(***************************************************************************)
EXTENDS Integers, Sequences, FiniteSets, TLC

(***************************************************************************)
(* Bounds of the model.                                                    *)
(***************************************************************************)
\* valid spins are j = t/2 for t in 0..MaxTwoJ
MaxTwoJ == 4
\* reassemble_mat_from_sols is exercised alone for D in 1..MaxRD
MaxRD == 3

(***************************************************************************)
(* Rational arithmetic: <<n, d>> with d > 0 and gcd(n, d) = 1.             *)
(***************************************************************************)
Abs(x) == IF x < 0 THEN -x ELSE x

RECURSIVE GCD(_, _)
GCD(a, b) == IF b = 0 THEN a ELSE GCD(b, a % b)

Rat(n, d) ==
    LET g == GCD(Abs(n), Abs(d))
        s == IF d < 0 THEN -1 ELSE 1
    IN  <<(s * n) \div g, (s * d) \div g>>

RZero == <<0, 1>>
ROne == <<1, 1>>
RInt(n) == <<n, 1>>
RAdd(x, y) == Rat(x[1] * y[2] + y[1] * x[2], x[2] * y[2])
RNeg(x) == <<-x[1], x[2]>>
RSub(x, y) == RAdd(x, RNeg(y))
RMul(x, y) == Rat(x[1] * y[1], x[2] * y[2])
RInv(x) == Rat(x[2], x[1])
RLe(x, y) == x[1] * y[2] <= y[1] * x[2]

\* Python int(x): truncation toward zero
PyInt(x) == IF x[1] >= 0 THEN x[1] \div x[2] ELSE -((-x[1]) \div x[2])
\* ceil(x)
Ceil(x) == -((-x[1]) \div x[2])

(***************************************************************************)
(* Values: finite sets of terms [rad, re, im] standing for                 *)
(* (re + i*im)*sqrt(rad), one term per squarefree rad, no zero term.       *)
(***************************************************************************)
\* the largest s with s*s dividing p (p >= 1)
SqPart(p) ==
    CHOOSE s \in 1..p : /\ p % (s * s) = 0
                        /\ \A u \in (s + 1)..p : (u * u > p) \/ (p % (u * u) # 0)

TZero == {}
TRat(r) == IF r = RZero THEN {} ELSE {[rad |-> 1, re |-> r, im |-> RZero]}
TImag(r) == IF r = RZero THEN {} ELSE {[rad |-> 1, re |-> RZero, im |-> r]}

TCoef(a, n) ==
    IF \E t \in a : t.rad = n
    THEN CHOOSE t \in a : t.rad = n
    ELSE [rad |-> n, re |-> RZero, im |-> RZero]

TAdd(a, b) ==
    LET rads == {t.rad : t \in a \cup b}
        sum(n) == [rad |-> n,
                   re |-> RAdd(TCoef(a, n).re, TCoef(b, n).re),
                   im |-> RAdd(TCoef(a, n).im, TCoef(b, n).im)]
    IN  {x \in {sum(n) : n \in rads} : x.re # RZero \/ x.im # RZero}

TNeg(a) == {[rad |-> t.rad, re |-> RNeg(t.re), im |-> RNeg(t.im)] : t \in a}

\* the product of two terms: sqrt(a)*sqrt(b) = s*sqrt(a*b/s^2)
TermMul(t, u) ==
    LET p == t.rad * u.rad
        s == SqPart(p)
    IN  [rad |-> p \div (s * s),
         re |-> RMul(RInt(s), RSub(RMul(t.re, u.re), RMul(t.im, u.im))),
         im |-> RMul(RInt(s), RAdd(RMul(t.re, u.im), RMul(t.im, u.re)))]

RECURSIVE TSumPairs(_)
TSumPairs(P) ==
    IF P = {} THEN {}
    ELSE LET p == CHOOSE p \in P : TRUE
         IN  TAdd({x \in {TermMul(p[1], p[2])} : x.re # RZero \/ x.im # RZero},
                  TSumPairs(P \ {p}))

TMul(a, b) == TSumPairs(a \X b)

\* complex conjugate
TConj(a) == {[rad |-> t.rad, re |-> t.re, im |-> RNeg(t.im)] : t \in a}

\* 1/a for a value with a single term c*sqrt(n): conj(c)/(|c|^2 * n) * sqrt(n)
TInv(a) ==
    LET t == CHOOSE t \in a : TRUE
        nrm == RMul(RInt(t.rad), RAdd(RMul(t.re, t.re), RMul(t.im, t.im)))
    IN  {[rad |-> t.rad, re |-> RMul(t.re, RInv(nrm)), im |-> RNeg(RMul(t.im, RInv(nrm)))]}

\* the principal square root of a rational: sqrt(p/q) = (s/q)*sqrt(p*q/s^2),
\* and i*sqrt(-r) for r < 0
TSqrt(r) ==
    IF r = RZero THEN {}
    ELSE LET p == Abs(r[1]) * r[2]
             s == SqPart(p)
             c == Rat(s, r[2])
         IN  IF r[1] > 0 THEN {[rad |-> p \div (s * s), re |-> c, im |-> RZero]}
             ELSE {[rad |-> p \div (s * s), re |-> RZero, im |-> c]}


(***************************************************************************)
(* Numbers: a value and the flag "held as a float".                        *)
(***************************************************************************)
Num(v, fl) == [v |-> v, fl |-> fl]
Exact(r) == Num(TRat(r), FALSE)
Float(r) == Num(TRat(r), TRUE)
NZero == Num(TZero, FALSE)
NAdd(a, b) == Num(TAdd(a.v, b.v), a.fl \/ b.fl)
NNeg(a) == Num(TNeg(a.v), a.fl)
NSub(a, b) == NAdd(a, NNeg(b))
NMul(a, b) == Num(TMul(a.v, b.v), a.fl \/ b.fl)
NDiv(a, b) == Num(TMul(a.v, TInv(b.v)), a.fl \/ b.fl)
\* the rational real part of a number
ReOf(a) == TCoef(a.v, 1).re

\* x**(1/2) on a numpy complex scalar with a real rational value
PySqrt(x) == Num(TSqrt(ReOf(x)), TRUE)

\* a numpy complex entry as sympy shows it once inside a Matrix: a Float,
\* except that a zero entry is the exact 0
Sympify(x) == IF x.v = TZero THEN NZero ELSE Num(x.v, TRUE)

(***************************************************************************)
(* Matrices are sequences of rows, vectors sequences of entries; the       *)
(* source's 0-based index r is position r + 1.                             *)
(***************************************************************************)

\* js = np.arange(j, -j-1, -1, dtype=complex): ceil(2j+1) entries j - k
arange(j) ==
    LET n == Ceil(RAdd(RMul(RInt(2), j), ROne))
    IN  [k \in 1..(IF n < 0 THEN 0 ELSE n) |-> Float(RSub(j, RInt(k - 1)))]

\* faulty variant: the diagonal filled from the end of js
diag_reversed(js) ==
    [r \in 1..Len(js) |-> [c \in 1..Len(js) |->
        IF r = c THEN Sympify(js[Len(js) - r + 1]) ELSE NZero]]

\* sp.Matrix(np.diag(js))
diag(js) ==
    [r \in 1..Len(js) |-> [c \in 1..Len(js) |->
        IF r = c THEN Sympify(js[r]) ELSE NZero]]

\* np.eye(D, dtype=complex), defined for D >= 0
eye(D) ==
    [r \in 1..D |-> [c \in 1..D |-> IF r = c THEN Float(ROne) ELSE Float(RZero)]]

\* sp.Matrix(np.zeros(D, dtype=complex))
zeros(D) == [r \in 1..D |-> Sympify(Float(RZero))]

\* scalar * vector
Scale(a, vec) == [r \in 1..Len(vec) |-> NMul(a, vec[r])]
VecAdd(x, y) == [r \in 1..Len(x) |-> NAdd(x[r], y[r])]
VecNeg(x) == [r \in 1..Len(x) |-> NNeg(x[r])]

(***************************************************************************)
(* Python list indexing: a negative index counts from the end, an index    *)
(* outside -len..len-1 raises IndexError.                                  *)
(***************************************************************************)
PyIndexOK(len, idx) == idx >= -len /\ idx < len
PyPos(len, idx) == IF idx < 0 THEN idx + len + 1 ELSE idx + 1

(***************************************************************************)
(* Symbols: sp.symbols('x:N') names them x0 .. x(N-1).                      *)
(***************************************************************************)
RECURSIVE Digits(_)
Digits(n) == IF n < 10 THEN <<48 + n>> ELSE Digits(n \div 10) \o <<48 + (n % 10)>>

\* the name of symbol number n
SymName(n) == <<120>> \o Digits(n)

\* sp.symbols(f'x:{num_vars}') as a list
symbols(num_vars) == [n \in 1..num_vars |-> SymName(n - 1)]

\* int(s) for a string of decimal digits
RECURSIVE PyIntStr(_)
PyIntStr(s) ==
    IF Len(s) = 0 THEN 0
    ELSE 10 * PyIntStr(SubSeq(s, 1, Len(s) - 1)) + (s[Len(s)] - 48)


(***************************************************************************)
(* initialize_eigenstates: the columns of a numpy array as sympy vectors.  *)
(***************************************************************************)
initialize_eigenstates(es) ==
    LET n == IF Len(es) = 0 THEN 0 ELSE Len(es[1])
    IN  [c \in 1..n |-> [r \in 1..Len(es) |-> Sympify(es[r][c])]]

(***************************************************************************)
(* Linear expressions in the unknowns: [co, k] stands for                  *)
(* SUM_n co[n]*n + k, with co defined on the symbols that occur.           *)
(***************************************************************************)
RECURSIVE SeqSum(_)
SeqSum(s) == IF Len(s) = 0 THEN NZero ELSE NAdd(s[1], SeqSum(Tail(s)))

\* row r of (G * vec) for a matrix G of symbols and a vector of numbers
RowTimesVec(row, vec) ==
    LET occ == {row[c] : c \in {c \in 1..Len(vec) : vec[c].v # TZero}}
    IN  [co |-> [n \in occ |->
                    SeqSum([c \in 1..Len(vec) |->
                               IF row[c] = n THEN vec[c] ELSE NZero])],
         k |-> NZero]

\* faulty variant: G * vec + rhs, the prefactor is left out of the product
ColumnEquation_no_prefactor(prefactor, G, vec, rhs) ==
    [r \in 1..Len(G) |->
        LET lf == RowTimesVec(G[r], vec)
        IN  [co |-> lf.co, k |-> NAdd(lf.k, rhs[r])]]

\* prefactor * G * vec + rhs, one linear expression per row
ColumnEquation(prefactor, G, vec, rhs) ==
    [r \in 1..Len(G) |->
        LET lf == RowTimesVec(G[r], vec)
        IN  [co |-> [n \in DOMAIN lf.co |-> NMul(prefactor, lf.co[n])],
             k |-> NAdd(NMul(prefactor, lf.k), rhs[r])]]

(***************************************************************************)
(* sp.solve(eqs, symbols, dict=True) for a system in which every equation  *)
(* holds at most one of the symbols and no symbol occurs in two equations  *)
(* (what G*e_k produces): the list of solutions is empty when an equation  *)
(* without unknown is not 0 = 0, and else holds one mapping that gives     *)
(* each unknown that occurs the value -k/co.                               *)
(***************************************************************************)
Range(s) == {s[x] : x \in DOMAIN s}
Unknowns(eq, syms) == {n \in DOMAIN eq.co : n \in Range(syms) /\ eq.co[n].v # TZero}

solve_has_solution(eqs, syms) ==
    \A r \in DOMAIN eqs :
        /\ Cardinality(Unknowns(eqs[r], syms)) <= 1
        /\ Unknowns(eqs[r], syms) = {} => eqs[r].k.v = TZero
        /\ \A q \in DOMAIN eqs :
              q # r => Unknowns(eqs[r], syms) \cap Unknowns(eqs[q], syms) = {}

\* faulty variant: every symbol handed to the solver gets a value
solve_all_symbols(eqs, syms) ==
    [n \in Range(syms) |->
        IF \E r \in DOMAIN eqs : n \in Unknowns(eqs[r], syms)
        THEN LET r == CHOOSE r \in DOMAIN eqs : n \in Unknowns(eqs[r], syms)
             IN  NDiv(NNeg(eqs[r].k), eqs[r].co[n])
        ELSE NZero]

solve(eqs, syms) ==
    [n \in UNION {Unknowns(eqs[r], syms) : r \in DOMAIN eqs} |->
        LET r == CHOOSE r \in DOMAIN eqs : n \in Unknowns(eqs[r], syms)
        IN  NDiv(NNeg(eqs[r].k), eqs[r].co[n])]

(***************************************************************************)
(* reassemble_mat_from_sols                                                *)
(***************************************************************************)
\* merged_dict: a key found in several mappings keeps the last value
merged_dict(ss) ==
    [n \in UNION {DOMAIN ss[d] : d \in DOMAIN ss} |->
        LET d == CHOOSE d \in DOMAIN ss :
                     /\ n \in DOMAIN ss[d]
                     /\ \A e \in DOMAIN ss : (e > d) => n \notin DOMAIN ss[e]
        IN  ss[d][n]]

\* a sorts before b when it is lexicographically smaller as a string
RECURSIVE StrLe(_, _)
StrLe(a, b) ==
    IF Len(a) = 0 THEN TRUE
    ELSE IF Len(b) = 0 THEN FALSE
    ELSE IF a[1] # b[1] THEN a[1] < b[1]
    ELSE StrLe(Tail(a), Tail(b))

\* the sort key: int(str(item[0])[1:])
KeyLe(a, b) == PyIntStr(Tail(a)) <= PyIntStr(Tail(b))

\* sorted(merged_dict.items(), key=...): the keys in sorted order
RECURSIVE sorted_keys(_)
sorted_keys(S) ==
    IF S = {} THEN <<>>
    ELSE LET x == CHOOSE x \in S : \A y \in S : KeyLe(x, y)
         IN  <<x>> \o sorted_keys(S \ {x})

sorted_vals(ss) ==
    LET md == merged_dict(ss)
        ks == sorted_keys(DOMAIN md)
    IN  [n \in 1..Len(ks) |-> md[ks[n]]]

\* faulty variant: the indices must also be 0 .. D*D-1
reassemble_ok_contiguous(DD, ss) ==
    /\ Len(sorted_vals(ss)) = DD * DD
    /\ {PyIntStr(Tail(n)) : n \in DOMAIN merged_dict(ss)} = 0..(DD * DD - 1)

\* sp.Matrix(D, D, sorted_vals) raises ValueError unless there are D*D values
reassemble_ok(DD, ss) == Len(sorted_vals(ss)) = DD * DD

reassemble_mat_from_sols(DD, ss) ==
    LET vals == sorted_vals(ss)
    IN  [r \in 1..DD |-> [c \in 1..DD |-> vals[(r - 1) * DD + c]]]

\* sp.nsimplify on an entry: the exact closed form of a float
nsimplify(x) == Num(x.v, FALSE)

\* J.applyfunc(sp.nsimplify)
applyfunc_nsimplify(M) ==
    [r \in 1..Len(M) |-> [c \in 1..Len(M[r]) |-> nsimplify(M[r][c])]]


(***************************************************************************)
(* The body of the column loop of form_matrix_irrep_so3.                   *)
(***************************************************************************)
\* enumerate([2.0, 2.0j])
prefactors == <<Num(TRat(RInt(2)), TRUE), Num(TImag(RInt(2)), TRUE)>>

\* faulty variant: the range test on m left out of the raising branch
up_condition_no_range(kk, m, jj) == kk >= 0

\* if k >= 0 and m + 1 <= j
up_condition(kk, m, jj) == kk >= 0 /\ RLe(RAdd(ReOf(m), ROne), jj)

\* faulty variant: a strict comparison in the lowering branch
down_condition_strict(kk, m, jj, n) ==
    kk <= n - 1 /\ RNeg(jj) # RSub(ReOf(m), ROne) /\ RLe(RNeg(jj), RSub(ReOf(m), ROne))

\* if k <= len(js) - 1 and m - 1 >= -j
down_condition(kk, m, jj, n) == kk <= n - 1 /\ RLe(RNeg(jj), RSub(ReOf(m), ROne))

\* faulty variant: the lowering coefficient used for the raising term
prefactor_up_wrong(jj, m) ==
    PySqrt(NSub(Float(RMul(jj, RAdd(jj, ROne))), NMul(m, NSub(m, Float(ROne)))))

\* (j * (j + 1) - m * (m + 1))**(1/2)
prefactor_up(jj, m) ==
    PySqrt(NSub(Float(RMul(jj, RAdd(jj, ROne))), NMul(m, NAdd(m, Float(ROne)))))

\* faulty variant: the raising coefficient used for the lowering term
prefactor_down_wrong(jj, m) ==
    PySqrt(NSub(Float(RMul(jj, RAdd(jj, ROne))), NMul(m, NAdd(m, Float(ROne)))))

\* (j * (j + 1) - m * (m - 1))**(1/2)
prefactor_down(jj, m) ==
    PySqrt(NSub(Float(RMul(jj, RAdd(jj, ROne))), NMul(m, NSub(m, Float(ROne)))))

\* faulty variant: the same signs for both generators
rhs_of_same_sign(prefactor, up, down) == VecAdd(VecNeg(up), VecNeg(down))

\* rhs = -m_plus1_state - m_minus1_state if prefactor == 2.0
\*       else -m_plus1_state + m_minus1_state
rhs_of(prefactor, up, down) ==
    IF prefactor = prefactors[1]
    THEN VecAdd(VecNeg(up), VecNeg(down))
    ELSE VecAdd(VecNeg(up), down)

\* symbols = symbols_list[:num_vars//2] if prefactor == 2.0
\*           else symbols_list[num_vars//2:]
symbols_of(prefactor, sl, num_vars) ==
    IF prefactor = prefactors[1]
    THEN SubSeq(sl, 1, num_vars \div 2)
    ELSE SubSeq(sl, (num_vars \div 2) + 1, Len(sl))

\* one pass of the loop body for generator ii and column kk: the locals it
\* computes, whether an index it uses is out of range, and the solution
column(jj, DD, jss, se, nk, gens, sl, ii, kk) ==
    LET m == jss[kk + 1]
        n == Len(se)
        prefactor == prefactors[ii + 1]
        up == up_condition(kk, m, jj)
        down == down_condition(kk, m, jj, Len(jss))
        up_bad == up /\ ~PyIndexOK(n, kk - 1)
        down_bad == down /\ ~PyIndexOK(n, kk + 1)
        m_plus1_state ==
            IF up THEN Scale(prefactor_up(jj, m), se[PyPos(n, kk - 1)]) ELSE nk
        m_minus1_state ==
            IF down THEN Scale(prefactor_down(jj, m), se[PyPos(n, kk + 1)]) ELSE nk
        rhs == rhs_of(prefactor, m_plus1_state, m_minus1_state)
        syms == symbols_of(prefactor, sl, DD * DD * 2)
        eqs == ColumnEquation(prefactor, gens[ii + 1], se[kk + 1], rhs)
        index_error == up_bad \/ down_bad \/ ~PyIndexOK(n, kk)
    IN  [index_error |-> index_error \/ ~solve_has_solution(eqs, syms),
         locals |-> IF index_error THEN <<>>
                    ELSE [i |-> ii, k |-> kk,
                          read |-> (IF up THEN {kk - 1} ELSE {})
                                      \cup (IF down THEN {kk + 1} ELSE {}),
                          m_plus1_state |-> m_plus1_state,
                          m_minus1_state |-> m_minus1_state,
                          rhs |-> rhs,
                          symbols |-> syms],
         sol |-> IF index_error THEN <<>> ELSE solve(eqs, syms)]


(***************************************************************************)
(* State.  form_matrix_irrep_so3(j) runs from pc = "call" to "done" or     *)
(* "failed" (an exception leaves the function: the notebook has no         *)
(* try/except).  ig holds the locals of initialize_generators, cols_done   *)
(* the locals of every finished pass of the column loop, built the names   *)
(* of what has been constructed so far.  The r* variables are a lone call  *)
(* of reassemble_mat_from_sols(rD, rsols).                                 *)
(***************************************************************************)
VARIABLES pc, j, D, js, J3, eigenstates, symbols_list, ig, generators,
          symbolic_eigenstates, null_ket, i, k, sols, cols_done, built,
          result, err, rpc, rD, rsols, rJ

vars == <<pc, j, D, js, J3, eigenstates, symbols_list, ig, generators,
          symbolic_eigenstates, null_ket, i, k, sols, cols_done, built,
          result, err, rpc, rD, rsols, rJ>>

rvars == <<rpc, rD, rsols, rJ>>

\* the spins the notebook is meant for (0, 1/2, 1, ...), and spins it is not:
\* negative ones and ones that are no multiple of 1/2
ValidJ == {Rat(t, 2) : t \in 0..MaxTwoJ}
InvalidJ == {<<-1, 1>>, <<-1, 2>>, <<-1, 4>>, <<1, 4>>, <<2, 3>>}

ig0 == [symbols_copy |-> <<>>, generators |-> <<>>, rows |-> <<>>, cols |-> <<>>]

Idle ==
    /\ D = 0 /\ js = <<>> /\ J3 = <<>> /\ eigenstates = <<>>
    /\ symbols_list = <<>> /\ ig = ig0 /\ generators = <<>>
    /\ symbolic_eigenstates = <<>> /\ null_ket = <<>> /\ i = 0 /\ k = 0
    /\ sols = <<>> /\ cols_done = <<>> /\ built = {} /\ result = <<>>
    /\ err = "none"

Init ==
    /\ pc = "call"
    /\ j \in ValidJ \cup InvalidJ
    /\ Idle
    /\ rpc = "off" /\ rD = 0 /\ rsols = <<>> /\ rJ = <<>>

\* faulty variant: a failure that hands the caller what was built so far
Raise_partial(e) ==
    /\ pc' = "failed"
    /\ err' = e
    /\ result' = generators
    /\ UNCHANGED <<j, D, js, J3, eigenstates, symbols_list, ig, generators,
                   symbolic_eigenstates, null_ket, i, k, sols, cols_done,
                   built, rvars>>

\* an exception propagates to the caller
Raise(e) ==
    /\ pc' = "failed"
    /\ err' = e
    /\ UNCHANGED <<j, D, js, J3, eigenstates, symbols_list, ig, generators,
                   symbolic_eigenstates, null_ket, i, k, sols, cols_done,
                   built, result, rvars>>

\* D = int(2*j+1); js = np.arange(...); J3 = sp.Matrix(np.diag(js))
BuildJ3 ==
    /\ pc = "call"
    /\ D' = PyInt(RAdd(RMul(RInt(2), j), ROne))
    /\ js' = arange(j)
    /\ J3' = diag(arange(j))
    /\ built' = built \cup {"J3"}
    /\ pc' = "eye"
    /\ UNCHANGED <<j, eigenstates, symbols_list, ig, generators,
                   symbolic_eigenstates, null_ket, i, k, sols, cols_done,
                   result, err, rvars>>

\* eigenstates = np.eye(D) (ValueError for D < 0); symbols_list; the call of
\* initialize_generators up to symbols_copy = copy(symbols_list)
BuildEigenstates ==
    /\ pc = "eye"
    /\ IF D < 0 THEN Raise("ValueError")
       ELSE /\ eigenstates' = eye(D)
            /\ symbols_list' = symbols(D * D * 2)
            /\ ig' = [ig0 EXCEPT !.symbols_copy = symbols(D * D * 2)]
            /\ built' = built \cup {"eigenstates", "symbols"}
            /\ pc' = "initialize_generators"
            /\ UNCHANGED <<j, D, js, J3, generators, symbolic_eigenstates,
                           null_ket, i, k, sols, cols_done, result, err, rvars>>

\* faulty variant: no copy, the symbols are popped from the caller's list too
PopSymbol_from_caller ==
    /\ pc = "initialize_generators"
    /\ D > 0
    /\ Len(ig.generators) < 2
    /\ IF ig.symbols_copy = <<>> THEN Raise("IndexError")
       ELSE LET cols1 == Append(ig.cols, Head(ig.symbols_copy))
                rows1 == IF Len(cols1) = D THEN Append(ig.rows, cols1) ELSE ig.rows
                row_done == Len(cols1) = D
                mat_done == row_done /\ Len(rows1) = D
            IN  /\ ig' = [symbols_copy |-> Tail(ig.symbols_copy),
                          cols |-> IF row_done THEN <<>> ELSE cols1,
                          rows |-> IF mat_done THEN <<>> ELSE rows1,
                          generators |-> IF mat_done THEN Append(ig.generators, rows1)
                                         ELSE ig.generators]
                /\ symbols_list' = Tail(symbols_list)
                /\ UNCHANGED <<pc, j, D, js, J3, eigenstates,
                               generators, symbolic_eigenstates, null_ket, i, k,
                               sols, cols_done, built, result, err, rvars>>

\* initialize_generators: one cols.append(symbols_copy.pop(0)), with the
\* rows.append(cols) and generators.append(sp.Matrix(rows)) that end a row
\* and a matrix
PopSymbol ==
    /\ pc = "initialize_generators"
    /\ D > 0
    /\ Len(ig.generators) < 2
    /\ IF ig.symbols_copy = <<>> THEN Raise("IndexError")
       ELSE LET cols1 == Append(ig.cols, Head(ig.symbols_copy))
                rows1 == IF Len(cols1) = D THEN Append(ig.rows, cols1) ELSE ig.rows
                row_done == Len(cols1) = D
                mat_done == row_done /\ Len(rows1) = D
            IN  /\ ig' = [symbols_copy |-> Tail(ig.symbols_copy),
                          cols |-> IF row_done THEN <<>> ELSE cols1,
                          rows |-> IF mat_done THEN <<>> ELSE rows1,
                          generators |-> IF mat_done THEN Append(ig.generators, rows1)
                                         ELSE ig.generators]
                /\ UNCHANGED <<pc, j, D, js, J3, eigenstates, symbols_list,
                               generators, symbolic_eigenstates, null_ket, i, k,
                               sols, cols_done, built, result, err, rvars>>

\* return generators; symbolic_eigenstates = initialize_eigenstates(...);
\* null_ket; the first generator's loop begins with sols = []
InitReturn ==
    /\ pc = "initialize_generators"
    /\ D = 0 \/ Len(ig.generators) = 2
    /\ generators' = IF D = 0 THEN <<<<>>, <<>>>> ELSE ig.generators
    /\ symbolic_eigenstates' = initialize_eigenstates(eigenstates)
    /\ null_ket' = zeros(D)
    /\ i' = 0 /\ k' = 0 /\ sols' = <<>>
    /\ built' = built \cup {"generators"}
    /\ pc' = "columns"
    /\ UNCHANGED <<j, D, js, J3, eigenstates, symbols_list, ig, cols_done,
                   result, err, rvars>>

\* one pass of "for k, m in enumerate(js)"
SolveColumn ==
    /\ pc = "columns"
    /\ k < Len(js)
    /\ LET c == column(j, D, js, symbolic_eigenstates, null_ket, generators,
                       symbols_list, i, k)
       IN  IF c.index_error THEN Raise("IndexError")
           ELSE /\ sols' = Append(sols, c.sol)
                /\ cols_done' = Append(cols_done, c.locals)
                /\ k' = k + 1
                /\ built' = built \cup {"column"}
                /\ UNCHANGED <<pc, j, D, js, J3, eigenstates, symbols_list, ig,
                               generators, symbolic_eigenstates, null_ket, i,
                               result, err, rvars>>

\* J = reassemble_mat_from_sols(D, sols);
\* generators[i] = J.applyfunc(sp.nsimplify); then the next generator
Reassemble ==
    /\ pc = "columns"
    /\ k = Len(js)
    /\ IF ~reassemble_ok(D, sols) THEN Raise("ValueError")
       ELSE /\ generators' = [generators EXCEPT
                                 ![i + 1] =
                                    applyfunc_nsimplify(reassemble_mat_from_sols(D, sols))]
            /\ i' = i + 1
            /\ k' = IF i = 0 THEN 0 ELSE k
            /\ sols' = IF i = 0 THEN <<>> ELSE sols
            /\ pc' = IF i = 0 THEN "columns" ELSE "return"
            /\ UNCHANGED <<j, D, js, J3, eigenstates, symbols_list, ig,
                           symbolic_eigenstates, null_ket, cols_done, built,
                           result, err, rvars>>

\* return generators + [J3]
Return ==
    /\ pc = "return"
    /\ result' = generators \o <<J3>>
    /\ pc' = "done"
    /\ UNCHANGED <<j, D, js, J3, eigenstates, symbols_list, ig, generators,
                   symbolic_eigenstates, null_ket, i, k, sols, cols_done,
                   built, err, rvars>>

Next ==
    \/ BuildJ3
    \/ BuildEigenstates
    \/ PopSymbol
    \/ InitReturn
    \/ SolveColumn
    \/ Reassemble
    \/ Return

Spec == Init /\ [][Next]_vars


(***************************************************************************)
(* Matrix algebra on values, used to state the properties.                 *)
(***************************************************************************)
\* the matrix of the values of a matrix of numbers
Val(M) == [r \in 1..Len(M) |-> [c \in 1..Len(M[r]) |-> M[r][c].v]]

RECURSIVE TSeqSum(_)
TSeqSum(s) == IF Len(s) = 0 THEN TZero ELSE TAdd(s[1], TSeqSum(Tail(s)))

VMul(A, B) ==
    [r \in 1..Len(A) |-> [c \in 1..Len(A) |->
        TSeqSum([x \in 1..Len(A) |-> TMul(A[r][x], B[x][c])])]]
VAdd(A, B) == [r \in 1..Len(A) |-> [c \in 1..Len(A) |-> TAdd(A[r][c], B[r][c])]]
VSub(A, B) == [r \in 1..Len(A) |-> [c \in 1..Len(A) |-> TAdd(A[r][c], TNeg(B[r][c]))]]
VScale(a, A) == [r \in 1..Len(A) |-> [c \in 1..Len(A) |-> TMul(a, A[r][c])]]
VZero(n) == [r \in 1..n |-> [c \in 1..n |-> TZero]]
VIdentity(n) == [r \in 1..n |-> [c \in 1..n |-> IF r = c THEN TRat(ROne) ELSE TZero]]
TI == TImag(ROne)
IsSquare(M, n) == Len(M) = n /\ \A r \in 1..Len(M) : Len(M[r]) = n

\* the call returned for a valid spin
Returned == pc = "done" /\ j \in ValidJ
\* 2j+1 for a valid spin
Dim(jj) == (2 * jj[1]) \div jj[2] + 1
\* the ladder coefficients c+(m) and c-(m) of spin jj
CPlus(jj, m) == TSqrt(RSub(RMul(jj, RAdd(jj, ROne)), RMul(m, RAdd(m, ROne))))
CMinus(jj, m) == TSqrt(RSub(RMul(jj, RAdd(jj, ROne)), RMul(m, RSub(m, ROne))))
THalf == TRat(<<1, 2>>)

(***************************************************************************)
(* C1: for every valid j the returned J1, J2, J3 satisfy                   *)
(* J1*J2 - J2*J1 = i*J3, J2*J3 - J3*J2 = i*J1 and J3*J1 - J1*J3 = i*J2,    *)
(* every entry of each difference being zero.                              *)
(***************************************************************************)
C1_Commutation ==
    Returned =>
        LET J1 == Val(result[1])
            J2 == Val(result[2])
            J3v == Val(result[3])
            n == Len(J1)
        IN  /\ VSub(VSub(VMul(J1, J2), VMul(J2, J1)), VScale(TI, J3v)) = VZero(n)
            /\ VSub(VSub(VMul(J2, J3v), VMul(J3v, J2)), VScale(TI, J1)) = VZero(n)
            /\ VSub(VSub(VMul(J3v, J1), VMul(J1, J3v)), VScale(TI, J2)) = VZero(n)

\* a call for j = 3/2 returned, with J1 not the zero matrix
C1_Witness ==
    /\ Returned /\ j = <<3, 2>>
    /\ Val(result[1])[1][2] = {[rad |-> 3, re |-> <<1, 2>>, im |-> RZero]}

(***************************************************************************)
(* C2: for every valid j, column k of J1 holds c+(m_k)/2 at row k-1,       *)
(* c-(m_k)/2 at row k+1 and 0 elsewhere; column k of J2 holds              *)
(* -i*c+(m_k)/2 at row k-1, +i*c-(m_k)/2 at row k+1 and 0 elsewhere        *)
(* (m_k = j - k).  For j = 1/2: J1 = [[0,1/2],[1/2,0]],                    *)
(* J2 = [[0,-i/2],[i/2,0]], J3 = [[1/2,0],[0,-1/2]]; for j = 1:            *)
(* J1 = (1/sqrt 2)*[[0,1,0],[1,0,1],[0,1,0]].                              *)
(***************************************************************************)
C2_Entries ==
    Returned =>
        LET J1 == Val(result[1])
            J2 == Val(result[2])
            n == Dim(j)
            m(kk) == RSub(j, RInt(kk))
            half == [rad |-> 1, re |-> <<1, 2>>, im |-> RZero]
            sq2half == {[rad |-> 2, re |-> <<1, 2>>, im |-> RZero]}
        IN  /\ IsSquare(J1, n) /\ IsSquare(J2, n)
            /\ \A r \in 0..(n - 1), kk \in 0..(n - 1) :
                  /\ J1[r + 1][kk + 1] =
                        IF r = kk - 1 THEN TMul(THalf, CPlus(j, m(kk)))
                        ELSE IF r = kk + 1 THEN TMul(THalf, CMinus(j, m(kk)))
                        ELSE TZero
                  /\ J2[r + 1][kk + 1] =
                        IF r = kk - 1 THEN TMul(TNeg(TI), TMul(THalf, CPlus(j, m(kk))))
                        ELSE IF r = kk + 1 THEN TMul(TI, TMul(THalf, CMinus(j, m(kk))))
                        ELSE TZero
            /\ j = <<1, 2>> =>
                  /\ J1 = <<<<{}, {half}>>, <<{half}, {}>>>>
                  /\ J2 = <<<<{}, {[rad |-> 1, re |-> RZero, im |-> <<-1, 2>>]}>>,
                            <<{[rad |-> 1, re |-> RZero, im |-> <<1, 2>>]}, {}>>>>
                  /\ Val(result[3]) =
                        <<<<{half}, {}>>, <<{}, {[half EXCEPT !.re = <<-1, 2>>]}>>>>
            /\ j = <<1, 1>> =>
                  J1 = <<<<{}, sq2half, {}>>, <<sq2half, {}, sq2half>>,
                         <<{}, sq2half, {}>>>>

\* a call for j = 2 returned: J1 holds sqrt(6)/2 below 1, J2 holds -i above
C2_Witness ==
    /\ Returned /\ j = <<2, 1>>
    /\ Val(result[1])[3][2] = {[rad |-> 6, re |-> <<1, 2>>, im |-> RZero]}
    /\ Val(result[2])[1][2] = {[rad |-> 1, re |-> RZero, im |-> <<-1, 1>>]}

(***************************************************************************)
(* C3: for every valid j the three returned matrices are D x D with        *)
(* D = 2j+1, and J3 = diag(j, j-1, ..., -j): entry (k,k) is j - k and      *)
(* every off-diagonal entry is 0.                                          *)
(***************************************************************************)
C3_J3Diagonal ==
    Returned =>
        /\ Len(result) = 3
        /\ \A x \in 1..3 : IsSquare(result[x], Dim(j))
        /\ \A r \in 0..(Dim(j) - 1), c \in 0..(Dim(j) - 1) :
              Val(result[3])[r + 1][c + 1] =
                  IF r = c THEN TRat(RSub(j, RInt(r))) ELSE TZero
        /\ Val(result[3])[Dim(j)][Dim(j)] = TRat(RNeg(j))

\* a call for j = 3/2 returned a 4 x 4 J3 from 3/2 down to -3/2
C3_Witness ==
    /\ Returned /\ j = <<3, 2>>
    /\ Len(result[3]) = 4
    /\ Val(result[3])[1][1] = TRat(<<3, 2>>)
    /\ Val(result[3])[4][4] = TRat(<<-3, 2>>)

(***************************************************************************)
(* C4: for every valid j the returned J1 and J2 are Hermitian: entry       *)
(* (r,c) is the complex conjugate of entry (c,r).                          *)
(***************************************************************************)
C4_Hermitian ==
    Returned =>
        \A x \in 1..2 :
            \A r \in 1..Len(result[x]), c \in 1..Len(result[x]) :
                Val(result[x])[r][c] = TConj(Val(result[x])[c][r])

\* a call for j = 1 returned, J2 holding a non-real entry and its conjugate
C4_Witness ==
    /\ Returned /\ j = <<1, 1>>
    /\ Val(result[2])[1][2] = {[rad |-> 2, re |-> RZero, im |-> <<-1, 2>>]}
    /\ Val(result[2])[2][1] = {[rad |-> 2, re |-> RZero, im |-> <<1, 2>>]}

(***************************************************************************)
(* C5: for every valid j, J1*J1 + J2*J2 + J3*J3 = j(j+1) * identity.       *)
(***************************************************************************)
C5_Casimir ==
    Returned =>
        LET J1 == Val(result[1])
            J2 == Val(result[2])
            J3v == Val(result[3])
        IN  VAdd(VAdd(VMul(J1, J1), VMul(J2, J2)), VMul(J3v, J3v))
                = VScale(TRat(RMul(j, RAdd(j, ROne))), VIdentity(Len(J1)))

\* a call for j = 2 returned 5 x 5 matrices (Casimir value 6)
C5_Witness ==
    /\ Returned /\ j = <<2, 1>>
    /\ Len(result[1]) = 5
    /\ Val(result[1])[2][1] = TRat(ROne)


(***************************************************************************)
(* A lone call reassemble_mat_from_sols(rD, rsols).  The mappings handed   *)
(* in cover rD*rD symbols split by column or by row, listed in any order,  *)
(* with indices 0.., rD*rD.. or with gaps; one symbol may be missing or    *)
(* sit in two mappings.                                                    *)
(***************************************************************************)
Perms(n) == {f \in [1..n -> 1..n] : \A a, b \in 1..n : f[a] = f[b] => a = b}

\* the index of the n-th symbol (n from 0) of an input
RIndex(DD, numbering, n) ==
    IF numbering = "first" THEN n
    ELSE IF numbering = "second" THEN DD * DD + n
    ELSE 3 * n + 1

RValue(n) == Exact(RInt(n + 1))

RGroup(DD, grouping, g) ==
    {n \in 0..(DD * DD - 1) : IF grouping = "column" THEN n % DD = g ELSE n \div DD = g}

RInput(DD, numbering, grouping, order, defect) ==
    [p \in 1..DD |->
        LET own == RGroup(DD, grouping, order[p] - 1)
            ns == IF defect = "missing" /\ p = DD THEN own \ {DD * DD - 1}
                  ELSE IF defect = "twice" /\ p = DD /\ DD > 1 THEN own \cup {0}
                  ELSE own
        IN  [name \in {SymName(RIndex(DD, numbering, n)) : n \in ns} |->
                LET n == CHOOSE n \in ns : SymName(RIndex(DD, numbering, n)) = name
                IN  IF n \in own THEN RValue(n) ELSE RValue(DD * DD + p)]]

RInputs(DD) ==
    {RInput(DD, numbering, grouping, order, defect) :
        numbering \in {"first", "second", "gaps"},
        grouping \in {"column", "row"},
        order \in Perms(DD),
        defect \in {"none", "missing", "twice"}}

InitR ==
    /\ pc = "off" /\ j = RZero /\ Idle
    /\ rpc = "call"
    /\ rD \in 1..MaxRD
    /\ rsols \in RInputs(rD)
    /\ rJ = <<>>

RCall ==
    /\ rpc = "call"
    /\ IF ~reassemble_ok(rD, rsols)
       THEN rpc' = "failed" /\ rJ' = rJ
       ELSE rpc' = "done" /\ rJ' = reassemble_mat_from_sols(rD, rsols)
    /\ UNCHANGED <<pc, j, D, js, J3, eigenstates, symbols_list, ig, generators,
                   symbolic_eigenstates, null_ket, i, k, sols, cols_done,
                   built, result, err, rD, rsols>>

NextR == RCall

SpecR == InitR /\ [][NextR]_vars

(***************************************************************************)
(* C6: an invalid spin (negative, or with a denominator other than 1 or 2) *)
(* is rejected before anything is built: no J3, basis vector, unknown or   *)
(* generator matrix is constructed, no column equation is solved, and the  *)
(* call does not return.                                                   *)
(***************************************************************************)
C6_InvalidRejectedFirst ==
    j \in InvalidJ => built = {} /\ pc \in {"call", "failed"}

(***************************************************************************)
(* C7: a call is all-or-nothing: until it returns the caller holds no      *)
(* matrix, a failed call stays failed with none, and a returned call hands *)
(* exactly [J1, J2, J3] after one pass i = 0 then i = 1 in which each      *)
(* generator had all D columns solved, once each, and was reassembled.     *)
(***************************************************************************)
C7_AllOrNothing ==
    /\ pc # "done" => result = <<>>
    /\ pc = "failed" => err # "none" /\ ~ENABLED Next
    /\ pc = "done" =>
          /\ err = "none"
          /\ result = <<generators[1], generators[2], J3>>
          /\ Len(cols_done) = 2 * D
          /\ \A n \in 1..Len(cols_done) :
                /\ cols_done[n].i = (n - 1) \div D
                /\ cols_done[n].k = (n - 1) % D
          /\ \A x \in 1..2 : IsSquare(generators[x], D)

\* a call failed in a column solve after two columns were solved, and the
\* caller got nothing
C7_Witness ==
    /\ pc = "failed" /\ err = "IndexError"
    /\ Len(sols) = 2 /\ "generators" \in built
    /\ result = <<>>

(***************************************************************************)
(* C8: for every valid j and every column k visited, the raising term is   *)
(* c+(m_k)*e_(k-1) exactly when k-1 >= 0 and the lowering term             *)
(* c-(m_k)*e_(k+1) exactly when k+1 <= D-1, the term being the zero vector *)
(* otherwise; the basis vectors read are those only, never index -1 or D.  *)
(***************************************************************************)
C8_LadderTermsInRange ==
    j \in ValidJ =>
        \A n \in 1..Len(cols_done) :
            LET c == cols_done[n]
                unit(x) == [r \in 1..D |-> IF r = x + 1 THEN TRat(ROne) ELSE TZero]
                zero == [r \in 1..D |-> TZero]
                times(a, vec) == [r \in 1..D |-> TMul(a, vec[r])]
                m == RSub(j, RInt(c.k))
            IN  /\ c.read = {x \in {c.k - 1, c.k + 1} : x >= 0 /\ x <= D - 1}
                /\ Val(<<c.m_plus1_state>>)[1] =
                      IF c.k - 1 >= 0 THEN times(CPlus(j, m), unit(c.k - 1)) ELSE zero
                /\ Val(<<c.m_minus1_state>>)[1] =
                      IF c.k + 1 <= D - 1 THEN times(CMinus(j, m), unit(c.k + 1)) ELSE zero
                /\ c.k - 1 >= 0 => CPlus(j, m) # TZero
                /\ c.k + 1 <= D - 1 => CMinus(j, m) # TZero

\* j = 1: the first column read only e_1, the middle one e_0 and e_2, the
\* last one only e_1
C8_Witness ==
    /\ j = <<1, 1>> /\ Len(cols_done) >= 3
    /\ cols_done[1].read = {1}
    /\ cols_done[2].read = {0, 2}
    /\ cols_done[3].read = {1}

(***************************************************************************)
(* C9: for each generator i and column k the solution mapping has as keys  *)
(* exactly the D unknowns of column k of G_i (symbols i*D*D + r*D + k),    *)
(* although the solver is handed all D*D symbols of that generator; the    *)
(* column solutions of one generator have pairwise disjoint key sets and   *)
(* the D of them cover exactly the D*D symbols of the generator.           *)
(***************************************************************************)
C9_ColumnKeys ==
    (j \in ValidJ /\ pc \in {"columns", "return", "done"}) =>
        LET g == IF pc = "columns" THEN i ELSE 1
            all == {SymName(g * D * D + n) : n \in 0..(D * D - 1)}
        IN  /\ \A kk \in 1..Len(sols) :
                  /\ DOMAIN sols[kk] =
                        {SymName(g * D * D + r * D + (kk - 1)) : r \in 0..(D - 1)}
                  /\ Cardinality(DOMAIN sols[kk]) = D
                  /\ \A q \in 1..Len(sols) :
                        q # kk => DOMAIN sols[kk] \cap DOMAIN sols[q] = {}
            /\ \A n \in 1..Len(cols_done) :
                  cols_done[n].symbols =
                      [x \in 1..(D * D) |-> SymName(cols_done[n].i * D * D + x - 1)]
            /\ Len(sols) = D => UNION {DOMAIN sols[kk] : kk \in 1..D} = all

\* j = 1, second generator: all three columns are solved, the middle one
\* for x10, x13, x16
C9_Witness ==
    /\ j = <<1, 1>> /\ pc = "columns" /\ i = 1 /\ Len(sols) = 3
    /\ DOMAIN sols[2] = {SymName(10), SymName(13), SymName(16)}

(***************************************************************************)
(* C10: reassemble_mat_from_sols(D, sols), given mappings whose keys are   *)
(* D*D distinct symbols, puts at entry (r,c) the value of the symbol with  *)
(* the (r*D+c)-th smallest numeric index (x9 before x10), whatever the     *)
(* order of the mappings in sols.                                          *)
(***************************************************************************)
C10_RowMajorByIndex ==
    LET keys == UNION {DOMAIN rsols[p] : p \in DOMAIN rsols}
        idx(name) == PyIntStr(Tail(name))
        rank(name) == Cardinality({o \in keys : idx(o) < idx(name)})
        distinct == /\ Cardinality(keys) = rD * rD
                    /\ \A p, q \in DOMAIN rsols :
                          p # q => DOMAIN rsols[p] \cap DOMAIN rsols[q] = {}
    IN  (rpc # "call" /\ distinct) =>
            /\ rpc = "done"
            /\ IsSquare(rJ, rD)
            /\ \A p \in DOMAIN rsols : \A name \in DOMAIN rsols[p] :
                  rJ[(rank(name) \div rD) + 1][(rank(name) % rD) + 1] = rsols[p][name]

\* D = 3 with the symbols x9..x17 split by column and listed last column
\* first: x9 lands at (0,0), x10 at (0,1)
C10_Witness ==
    /\ rpc = "done" /\ rD = 3
    /\ DOMAIN rsols[1] = {SymName(11), SymName(14), SymName(17)}
    /\ DOMAIN rsols[3] = {SymName(9), SymName(12), SymName(15)}
    /\ rJ[1][1] = rsols[3][SymName(9)]
    /\ rJ[1][2] = rsols[2][SymName(10)]


(***************************************************************************)
(* C11.  The symbols handed to a lone call, their indices, and whether a   *)
(* symbol sits in two mappings.                                            *)
(***************************************************************************)
RKeys == UNION {DOMAIN rsols[p] : p \in DOMAIN rsols}
RIndices == {PyIntStr(Tail(n)) : n \in RKeys}
RTwice == \E p, q \in DOMAIN rsols : p # q /\ DOMAIN rsols[p] \cap DOMAIN rsols[q] # {}

(***************************************************************************)
(* C11 as claimed: whenever the indices of the merged mapping are not      *)
(* exactly 0 .. D*D-1 (a gap) or a symbol sits in two mappings, the call   *)
(* fails instead of returning a matrix.                                    *)
(***************************************************************************)
C11_GapOrDuplicateFails ==
    (rpc # "call" /\ (RIndices # 0..(rD * rD - 1) \/ RTwice)) => rpc = "failed"

(***************************************************************************)
(* C11 as amended: the call fails exactly when the merged mapping does not *)
(* hold D*D distinct symbols; with D*D of them it returns a matrix, also   *)
(* when their indices have gaps or do not start at 0, and also when a      *)
(* symbol sits in two mappings, whose last value is then the one used.     *)
(***************************************************************************)
C11_FailsOnCountOnly ==
    rpc # "call" =>
        /\ rpc = "failed" <=> Cardinality(RKeys) # rD * rD
        /\ rpc = "failed" => rJ = <<>>
        /\ rpc = "done" =>
              /\ IsSquare(rJ, rD)
              /\ \A n \in RKeys :
                    LET last == CHOOSE p \in DOMAIN rsols :
                                    /\ n \in DOMAIN rsols[p]
                                    /\ \A q \in DOMAIN rsols :
                                          q > p => n \notin DOMAIN rsols[q]
                    IN  \E r, c \in 1..rD : rJ[r][c] = rsols[last][n]

\* D = 2, indices with gaps (1, 4, 7, 10) and x1 in two mappings: a matrix
\* is returned, with the later value of x1 at (0,0)
C11_Witness ==
    /\ rpc = "done" /\ rD = 2
    /\ RIndices = {1, 4, 7, 10}
    /\ RTwice
    /\ SymName(1) \in DOMAIN rsols[2]
    /\ rJ[1][1] = rsols[2][SymName(1)]


(***************************************************************************)
(* C12.  The symbols initialize_generators has placed so far, in the order *)
(* it popped them: the finished matrices, the finished rows, the open row. *)
(***************************************************************************)
RECURSIVE Flatten(_)
Flatten(ss) == IF Len(ss) = 0 THEN <<>> ELSE ss[1] \o Flatten(Tail(ss))

Placed == Flatten([g \in 1..Len(ig.generators) |-> Flatten(ig.generators[g])])
              \o Flatten(ig.rows) \o ig.cols

\* initialize_generators has returned
AfterInitialize == "generators" \in built

(***************************************************************************)
(* C12 as claimed: after initialize_generators(D, symbols_list) the first  *)
(* 2*D*D symbols are gone from the caller's symbols_list (which held       *)
(* exactly 2*D*D), each of them used once: the first D*D row-major in G_0, *)
(* the next D*D row-major in G_1.                                          *)
(***************************************************************************)
C12_CallerListConsumed ==
    AfterInitialize =>
        /\ symbols_list = <<>>
        /\ Placed = symbols(D * D * 2)

(***************************************************************************)
(* C12 as amended: initialize_generators consumes a private copy of the    *)
(* input sequence.  The caller's symbols_list keeps all its 2*D*D distinct *)
(* symbols during and after the call; the copy loses its symbols from the  *)
(* front, one per pop, and is empty at the return; each symbol is used     *)
(* exactly once, the first D*D row-major in G_0, the next D*D row-major in *)
(* G_1.                                                                    *)
(***************************************************************************)
C12_ConsumesCopyOnly ==
    "symbols" \in built =>
        /\ symbols_list = symbols(D * D * 2)
        /\ Cardinality(Range(symbols_list)) = D * D * 2
        /\ Placed \o ig.symbols_copy = symbols_list
        /\ AfterInitialize =>
              /\ ig.symbols_copy = <<>>
              /\ D > 0 => Len(ig.generators) = 2
              /\ \A g \in 1..Len(ig.generators) :
                    /\ IsSquare(ig.generators[g], D)
                    /\ \A r \in 1..D, c \in 1..D :
                          ig.generators[g][r][c] =
                              symbols_list[(g - 1) * D * D + (r - 1) * D + c]
              /\ (pc = "columns" /\ i = 0 /\ D > 0) => generators = ig.generators

\* j = 1: initialize_generators has returned two 3 x 3 matrices of unknowns,
\* G_1 starting with x9, and the caller still holds its 18 symbols
C12_Witness ==
    /\ j = <<1, 1>> /\ AfterInitialize
    /\ Len(symbols_list) = 18
    /\ ig.symbols_copy = <<>>
    /\ ig.generators[2][1][1] = SymName(9)
    /\ ig.generators[1][3][3] = SymName(8)


(***************************************************************************)
(* C13.  For a finished pass c of the column loop: the column the solver   *)
(* found (read from sols while generator c.i is being solved, and from the *)
(* reassembled generators[c.i] afterwards), and the closed form            *)
(* rhs / prefactor, negated or not.                                        *)
(***************************************************************************)
SolvedColumn(c) ==
    [r \in 1..D |->
        IF pc = "columns" /\ c.i = i
        THEN sols[c.k + 1][SymName(c.i * D * D + (r - 1) * D + c.k)].v
        ELSE generators[c.i + 1][r][c.k + 1].v]

ClosedForm(c, negated) ==
    [r \in 1..D |->
        TMul(IF negated THEN TNeg(c.rhs[r].v) ELSE c.rhs[r].v,
             TInv(prefactors[c.i + 1].v))]

(***************************************************************************)
(* C13 as claimed: for every j in 0, 1/2, .., every generator i and every  *)
(* column k, column k of G_i obtained by solving                           *)
(* prefactor_i * G_i * e_k + rhs_k = 0 equals rhs_k / prefactor_i.         *)
(***************************************************************************)
C13_ColumnIsRhsOverPrefactor ==
    j \in ValidJ =>
        \A n \in 1..Len(cols_done) :
            SolvedColumn(cols_done[n]) = ClosedForm(cols_done[n], FALSE)

(***************************************************************************)
(* C13 as amended: for every j in 0, 1/2, .., every generator i and every  *)
(* column k, column k of G_i obtained by solving                           *)
(* prefactor_i * G_i * e_k + rhs_k = 0 equals -rhs_k / prefactor_i (the    *)
(* known vector moves to the other side), both in the solver's mapping and *)
(* in the matrix returned.                                                 *)
(***************************************************************************)
C13_ColumnIsMinusRhsOverPrefactor ==
    j \in ValidJ =>
        /\ \A n \in 1..Len(cols_done) :
              /\ cols_done[n].i \in {0, 1}
              /\ cols_done[n].k \in 0..(D - 1)
              /\ Len(cols_done[n].rhs) = D
              /\ SolvedColumn(cols_done[n]) = ClosedForm(cols_done[n], TRUE)
        /\ Returned =>
              /\ Len(cols_done) = 2 * D
              /\ \A n \in 1..Len(cols_done), r \in 1..D :
                    result[cols_done[n].i + 1][r][cols_done[n].k + 1].v =
                        ClosedForm(cols_done[n], TRUE)[r]

\* j = 1, returned: the middle column of the second generator (the fifth
\* pass) has a non-zero first entry, which is -rhs[0] / 2i
C13_Witness ==
    /\ j = <<1, 1>> /\ Returned /\ Len(cols_done) = 6
    /\ cols_done[5].i = 1 /\ cols_done[5].k = 1
    /\ cols_done[5].rhs[1].v # TZero
    /\ result[2][1][2].v = ClosedForm(cols_done[5], TRUE)[1]
    /\ result[2][1][2].v # ClosedForm(cols_done[5], FALSE)[1]

=============================================================================
